---- MODULE Spec2Model ----
(***************************************************************************)
(* HTMLToTextConverter (html_converter.py) and the menu loop of main       *)
(* (mail_client.py) as state machines.                                     *)
(*                                                                         *)
(* A string is a sequence of characters; a character is a one-element      *)
(* TLA+ string (" ", "\n", "a", ...).  Characters outside ASCII are named: *)
(* "BULLET" is U+2022, "cyr_*" / "CYR_*" are Cyrillic letters.             *)
(*                                                                         *)
(* The document tree is the object graph BeautifulSoup builds: a sequence  *)
(* of nodes addressed by index, node 1 being the BeautifulSoup object.     *)
(* Each rewrite pass is a loop over the list find_all returned when the    *)
(* loop started; one action handles one element of that list.              *)
(***************************************************************************)
EXTENDS Integers, Sequences, FiniteSets, TLC

VARIABLES
    html,         \* the parsed input document (html_content after parsing)
    soup,         \* the tree the passes mutate
    pc,           \* position in convert / extract_attachments_info
    work,         \* elements of the running for-loop not yet visited
    text,         \* local variable text of convert and _finalize_formatting
    result,       \* value returned by convert
    attachments,  \* local list of extract_attachments_info
    main_pc,      \* position in main
    access_token, \* local variable access_token of main
    choice,       \* local variable choice of main
    message_id,   \* local variable message_id of main
    confirm,      \* local variable confirm of main
    inputs,       \* the lines input() returned in the latest pass of the loop
    issued,       \* the HTTP requests the latest pass of the loop issued
    outcome       \* how the latest request ended

converter_vars == <<html, soup, pc, work, text, result, attachments>>

main_vars == <<main_pc, access_token, choice, message_id, confirm, inputs, issued, outcome>>

vars == <<converter_vars, main_vars>>

\* main has not been called
MainNotStarted ==
    /\ main_pc = "main"
    /\ access_token = <<>>
    /\ choice = <<>>
    /\ message_id = <<>>
    /\ confirm = <<>>
    /\ inputs = <<>>
    /\ issued = <<>>
    /\ outcome = "none"

(***************************************************************************)
(* Python str                                                              *)
(***************************************************************************)
Whitespace == {" ", "\t", "\n"}

isspace(c) == c \in Whitespace

RECURSIVE lstrip(_)
lstrip(s) ==
    IF s = <<>> THEN <<>>
    ELSE IF isspace(Head(s)) THEN lstrip(Tail(s)) ELSE s

RECURSIVE rstrip(_)
rstrip(s) ==
    IF s = <<>> THEN <<>>
    ELSE IF isspace(s[Len(s)]) THEN rstrip(SubSeq(s, 1, Len(s) - 1)) ELSE s

strip(s) == rstrip(lstrip(s))

LowerChars ==
    <<"a", "b", "c", "d", "e", "f", "h", "i", "l", "m", "n", "o", "t", "u", "w", "x", "y",
      "cyr_ve", "cyr_el", "cyr_o", "cyr_zhe", "cyr_ie", "cyr_en", "cyr_i",
      "cyr_ef", "cyr_a", "cyr_short_i", "cyr_es", "cyr_ka", "cyr_che",
      "cyr_te", "cyr_soft">>

UpperChars ==
    <<"A", "B", "C", "D", "E", "F", "H", "I", "L", "M", "N", "O", "T", "U", "W", "X", "Y",
      "CYR_VE", "CYR_EL", "CYR_O", "CYR_ZHE", "CYR_IE", "CYR_EN", "CYR_I",
      "CYR_EF", "CYR_A", "CYR_SHORT_I", "CYR_ES", "CYR_KA", "CYR_CHE",
      "CYR_TE", "CYR_SOFT">>

upper_char(c) ==
    IF \E i \in 1..Len(LowerChars) : LowerChars[i] = c
    THEN UpperChars[CHOOSE i \in 1..Len(LowerChars) : LowerChars[i] = c]
    ELSE c

lower_char(c) ==
    IF \E i \in 1..Len(UpperChars) : UpperChars[i] = c
    THEN LowerChars[CHOOSE i \in 1..Len(UpperChars) : UpperChars[i] = c]
    ELSE c

upper(s) == [i \in 1..Len(s) |-> upper_char(s[i])]

lower(s) == [i \in 1..Len(s) |-> lower_char(s[i])]

\* sep.join(parts)
RECURSIVE join(_, _)
join(sep, parts) ==
    IF parts = <<>> THEN <<>>
    ELSE IF Len(parts) = 1 THEN parts[1]
    ELSE parts[1] \o sep \o join(sep, Tail(parts))

\* s.split(c) for a one-character separator
RECURSIVE split(_, _)
split(s, c) ==
    IF \A i \in 1..Len(s) : s[i] # c THEN <<s>>
    ELSE LET k == CHOOSE i \in 1..Len(s) : s[i] = c /\ \A j \in 1..(i - 1) : s[j] # c
         IN <<SubSeq(s, 1, k - 1)>> \o split(SubSeq(s, k + 1, Len(s)), c)

\* s.replace(a, b) for one-character a and b
replace(s, a, b) == [i \in 1..Len(s) |-> IF s[i] = a THEN b ELSE s[i]]

\* needle in s
contains(s, needle) ==
    \E i \in 0..(Len(s) - Len(needle)) : SubSeq(s, i + 1, i + Len(needle)) = needle

\* str(i) for i >= 0
Digits == <<"0", "1", "2", "3", "4", "5", "6", "7", "8", "9">>

RECURSIVE str(_)
str(i) == IF i < 10 THEN <<Digits[i + 1]>> ELSE str(i \div 10) \o <<Digits[(i % 10) + 1]>>

(***************************************************************************)
(* BeautifulSoup tree                                                      *)
(***************************************************************************)
NavigableString == "#text"

NoParent == 0

Root == 1

TextNode(s, par) ==
    [name |-> NavigableString, has_href |-> FALSE, href |-> <<>>, text |-> s,
     contents |-> <<>>, parent |-> par, decomposed |-> FALSE]

IsTag(h, n) == h[n].name # NavigableString

\* the descendants of the nodes ids, in document order
RECURSIVE descendants_of(_, _)
descendants_of(h, ids) ==
    IF ids = <<>> THEN <<>>
    ELSE <<Head(ids)>> \o descendants_of(h, h[Head(ids)].contents)
                        \o descendants_of(h, Tail(ids))

descendants(h, n) == descendants_of(h, h[n].contents)

RECURSIVE concat_text(_, _)
concat_text(h, ids) ==
    IF ids = <<>> THEN <<>>
    ELSE h[Head(ids)].text \o concat_text(h, Tail(ids))

\* tag.get_text(): the strings below the tag, concatenated in document order
get_text(h, n) ==
    IF IsTag(h, n) THEN concat_text(h, descendants(h, n)) ELSE h[n].text

\* tag.find_all(names): matching descendants in document order
find_all(h, n, names) ==
    SelectSeq(descendants(h, n), LAMBDA d : h[d].name \in names)

\* tag.find_all("a", href=True)
find_all_href(h, n) ==
    SelectSeq(descendants(h, n), LAMBDA d : h[d].name = "a" /\ h[d].has_href)

IndexIn(seq, x) == CHOOSE i \in 1..Len(seq) : seq[i] = x

Without(seq, x) == SelectSeq(seq, LAMBDA y : y # x)

\* element.extract(): unlink the element from its parent
extract(h, n) ==
    IF h[n].parent = NoParent THEN h
    ELSE [h EXCEPT ![h[n].parent].contents = Without(@, n),
                   ![n].parent = NoParent]

\* the heap value standing for "the call raised"
Raised == <<>>

\* element.replace_with(string): a new NavigableString takes the element's
\* place among its parent's contents; ValueError when it has no parent
replace_with(h, n, s) ==
    IF h[n].parent = NoParent THEN Raised
    ELSE LET par == h[n].parent
             new == Len(h) + 1
             k == IndexIn(h[par].contents, n)
         IN Append([h EXCEPT ![par].contents = [@ EXCEPT ![k] = new],
                             ![n].parent = NoParent],
                   TextNode(s, par))

\* element.decompose(): extract it, then wipe it and everything below it
decompose(h, n) ==
    LET wiped == {n} \cup {descendants(h, n)[i] : i \in 1..Len(descendants(h, n))}
        h1 == extract(h, n)
    IN [i \in 1..Len(h1) |->
            IF i \in wiped
            THEN [h1[i] EXCEPT !.contents = <<>>, !.parent = NoParent, !.text = <<>>,
                               !.has_href = FALSE, !.href = <<>>, !.decomposed = TRUE]
            ELSE h1[i]]

\* whether node n is still reachable from the BeautifulSoup object
RECURSIVE attached(_, _)
attached(h, n) ==
    IF n = Root THEN TRUE
    ELSE IF h[n].parent = NoParent THEN FALSE
    ELSE attached(h, h[n].parent)

(***************************************************************************)
(* convert: the rewrite passes                                             *)
(***************************************************************************)
UnwantedTagsNoScript == {"style", "meta", "link"}

UnwantedTags == {"script", "style", "meta", "link"}

heading_map ==
    [h1 |-> <<"=", "=", "=", "=", "=", "=", " ">>,
     h2 |-> <<"=", "=", "=", "=", "=", " ">>,
     h3 |-> <<"=", "=", "=", "=", " ">>,
     h4 |-> <<"=", "=", "=", " ">>,
     h5 |-> <<"=", "=", " ">>,
     h6 |-> <<"=", " ">>]

HeadingTags == {"h1", "h2", "h3", "h4", "h5", "h6"}

\* heading_block with the underline built from the marker alone
heading_block_marker_underline(prefix, heading_text) ==
    <<"\n", "\n">> \o prefix \o upper(heading_text) \o <<"\n">>
        \o strip(prefix) \o <<"\n">>

\* the f-string of _process_headings
heading_block(prefix, heading_text) ==
    <<"\n", "\n">> \o prefix \o upper(heading_text) \o <<"\n">>
        \o replace(prefix, " ", "=") \o <<"\n">>

\* body of the inner loop of _process_headings for one heading
process_heading(h, n, prefix) ==
    LET heading_text == strip(get_text(h, n))
    IN IF heading_text # <<>>
       THEN replace_with(h, n, heading_block(prefix, heading_text))
       ELSE h

NonEmpty(seqs) == SelectSeq(seqs, LAMBDA x : x # <<>>)

\* list_items of the ul loop
ul_list_items(h, ul) ==
    LET lis == find_all(h, ul, {"li"})
    IN NonEmpty([i \in 1..Len(lis) |->
            LET item_text == strip(get_text(h, lis[i]))
            IN IF item_text # <<>> THEN <<" ", " ", "BULLET", " ">> \o item_text
               ELSE <<>>])

\* ol_list_items numbering the non-empty items only
ol_list_items_renumbered(h, ol) ==
    LET lis == find_all(h, ol, {"li"})
        texts == NonEmpty([i \in 1..Len(lis) |-> strip(get_text(h, lis[i]))])
    IN [i \in 1..Len(texts) |-> <<" ", " ">> \o str(i) \o <<".", " ">> \o texts[i]]

\* list_items of the ol loop: enumerate(ol.find_all("li"), 1)
ol_list_items(h, ol) ==
    LET lis == find_all(h, ol, {"li"})
    IN NonEmpty([i \in 1..Len(lis) |->
            LET item_text == strip(get_text(h, lis[i]))
            IN IF item_text # <<>> THEN <<" ", " ">> \o str(i) \o <<".", " ">> \o item_text
               ELSE <<>>])

\* the replacement or removal both list loops end with
replace_list(h, n, list_items) ==
    IF list_items # <<>>
    THEN replace_with(h, n, <<"\n">> \o join(<<"\n">>, list_items) \o <<"\n">>)
    ELSE decompose(h, n)

process_ul(h, ul) == replace_list(h, ul, ul_list_items(h, ul))

process_ol(h, ol) == replace_list(h, ol, ol_list_items(h, ol))

\* row_cells of one tr
row_cells(h, tr) ==
    LET cells == find_all(h, tr, {"td", "th"})
    IN [i \in 1..Len(cells) |-> strip(get_text(h, cells[i]))]

\* rows of one table: a row is kept when it has a cell, and a kept row with
\* empty cells is a string (possibly empty) all the same
RECURSIVE rows_of(_, _)
rows_of(h, trs) ==
    IF trs = <<>> THEN <<>>
    ELSE LET cells == row_cells(h, Head(trs))
         IN (IF cells # <<>> THEN <<join(<<" ", "|", " ">>, cells)>> ELSE <<>>)
                \o rows_of(h, Tail(trs))

table_rows(h, table) == rows_of(h, find_all(h, table, {"tr"}))

process_table(h, table) ==
    LET rows == table_rows(h, table)
    IN IF rows # <<>>
       THEN replace_with(h, table,
                <<"\n">> \o join(<<"\n">>, [i \in 1..Len(rows) |-> <<" ", " ">> \o rows[i]])
                         \o <<"\n">>)
       ELSE decompose(h, table)

\* link_replacement without the comparison of text and URL
link_replacement_always_both(link_text, link_url) ==
    IF link_text # <<>> /\ link_url # <<>>
    THEN link_text \o <<" ", "[">> \o link_url \o <<"]">>
    ELSE IF link_text # <<>> THEN link_text
    ELSE IF link_url # <<>> THEN link_url
    ELSE <<>>

\* the text _process_links puts in place of a link; <<>> stands for decompose
link_replacement(link_text, link_url) ==
    IF link_text # <<>> /\ link_url # <<>>
    THEN IF link_text # link_url
         THEN link_text \o <<" ", "[">> \o link_url \o <<"]">>
         ELSE link_url
    ELSE IF link_text # <<>> THEN link_text
    ELSE IF link_url # <<>> THEN link_url
    ELSE <<>>

process_link(h, link) ==
    LET link_text == strip(get_text(h, link))
        link_url == strip(h[link].href)
        r == link_replacement(link_text, link_url)
    IN IF r # <<>> THEN replace_with(h, link, r) ELSE decompose(h, link)

process_br(h, br) == replace_with(h, br, <<"\n">>)

process_p(h, p) ==
    LET p_text == strip(get_text(h, p))
    IN IF p_text # <<>>
       THEN replace_with(h, p, <<"\n">> \o p_text \o <<"\n">>)
       ELSE decompose(h, p)

StructuralTags == {"p", "h1", "h2", "h3", "h4", "h5", "h6", "ul", "ol", "table"}

\* any(child.name in [...] for child in div.children)
has_structural_child(h, div) ==
    \E i \in 1..Len(h[div].contents) : h[h[div].contents[i]].name \in StructuralTags

process_div(h, div) ==
    LET div_text == strip(get_text(h, div))
    IN IF div_text # <<>> /\ ~has_structural_child(h, div)
       THEN replace_with(h, div, <<"\n">> \o div_text \o <<"\n">>)
       ELSE h

(***************************************************************************)
(* _finalize_formatting                                                    *)
(***************************************************************************)
AllSpace(s, from, to) == \A i \in from..to : isspace(s[i])

Max(S) == CHOOSE x \in S : \A y \in S : y <= x

\* the k for which \s{k}\n\s*\n matches at position from (greedy candidates)
TailMatches(s, from) ==
    {k \in 0..(Len(s) - from) :
        /\ AllSpace(s, from, from + k - 1)
        /\ from + k <= Len(s)
        /\ s[from + k] = "\n"}

\* blank_match with lazy quantifiers: each \s*? takes the shortest run
blank_match_lazy(s) ==
    IF s = <<>> \/ s[1] # "\n" THEN 0
    ELSE LET K1 == {k1 \in TailMatches(s, 2) : TailMatches(s, 3 + k1) # {}}
         IN IF K1 = {} THEN 0
            ELSE LET k1 == CHOOSE x \in K1 : \A y \in K1 : x <= y
                     K2 == TailMatches(s, 3 + k1)
                     k2 == CHOOSE x \in K2 : \A y \in K2 : x <= y
                 IN 3 + k1 + k2

\* length of the match of \n\s*\n\s*\n at the start of s, 0 when there is none:
\* each \s* takes the longest run that still lets the rest of the pattern match
blank_match(s) ==
    IF s = <<>> \/ s[1] # "\n" THEN 0
    ELSE LET K1 == {k1 \in TailMatches(s, 2) : TailMatches(s, 3 + k1) # {}}
         IN IF K1 = {} THEN 0
            ELSE LET k1 == Max(K1)
                     k2 == Max(TailMatches(s, 3 + k1))
                 IN 3 + k1 + k2

\* re.sub(r"\n\s*\n\s*\n", "\n\n", s)
RECURSIVE sub_blank_lines(_)
sub_blank_lines(s) ==
    IF s = <<>> THEN <<>>
    ELSE LET m == blank_match(s)
         IN IF m > 0
            THEN <<"\n", "\n">> \o sub_blank_lines(SubSeq(s, m + 1, Len(s)))
            ELSE <<Head(s)>> \o sub_blank_lines(Tail(s))

\* length of the run of " " at the start of s
RECURSIVE space_run(_)
space_run(s) ==
    IF s = <<>> \/ Head(s) # " " THEN 0 ELSE 1 + space_run(Tail(s))

\* re.sub(r"[ ]{2,}", " ", s)
RECURSIVE sub_spaces(_)
sub_spaces(s) ==
    IF s = <<>> THEN <<>>
    ELSE LET m == space_run(s)
         IN IF m >= 2
            THEN <<" ">> \o sub_spaces(SubSeq(s, m + 1, Len(s)))
            ELSE <<Head(s)>> \o sub_spaces(Tail(s))

\* strip_lines that also drops the lines left empty by the trimming
strip_lines_no_blank(s) ==
    LET lines == split(s, "\n")
        trimmed == [i \in 1..Len(lines) |-> strip(lines[i])]
    IN join(<<"\n">>, SelectSeq(trimmed, LAMBDA l : l # <<>>))

strip_lines(s) ==
    LET lines == split(s, "\n")
    IN join(<<"\n">>, [i \in 1..Len(lines) |-> strip(lines[i])])

_finalize_formatting(s) == strip(strip_lines(sub_spaces(sub_blank_lines(s))))

(***************************************************************************)
(* Input documents: the trees the parser hands to the passes.  The parser  *)
(* gives script and style one string child at most, gives meta, link and   *)
(* br no child, and never builds an empty string.                          *)
(***************************************************************************)
MaxItems == 2      \* li elements per generated list
MaxCells == 2      \* cells per generated table row
MaxLinks == 2      \* anchors per document given to extract_attachments_info
MaxLen == 6        \* length of the texts given to _finalize_formatting alone

Str(s) == [name |-> NavigableString, has_href |-> FALSE, href |-> <<>>, text |-> s, kids |-> <<>>]

Tag(name, kids) == [name |-> name, has_href |-> FALSE, href |-> <<>>, text |-> <<>>, kids |-> kids]

Anchor(href, kids) == [name |-> "a", has_href |-> TRUE, href |-> href, text |-> <<>>, kids |-> kids]

SeqsUpTo(S, n) == UNION {[1..k -> S] : k \in 0..n}

\* BeautifulSoup(cleaned_html, "html.parser"): the object graph of a tree
RECURSIVE add_tree(_, _, _), add_kids(_, _, _)
add_tree(h, par, t) ==
    LET n == Len(h) + 1
        node == [name |-> t.name, has_href |-> t.has_href, href |-> t.href,
                 text |-> t.text, contents |-> <<>>, parent |-> par,
                 decomposed |-> FALSE]
    IN add_kids(Append([h EXCEPT ![par].contents = Append(@, n)], node), n, t.kids)

add_kids(h, par, kids) ==
    IF kids = <<>> THEN h
    ELSE add_kids(add_tree(h, par, Head(kids)), par, Tail(kids))

BeautifulSoup(kids) ==
    add_kids(<<[name |-> "[document]", has_href |-> FALSE, href |-> <<>>, text |-> <<>>,
                contents |-> <<>>, parent |-> NoParent, decomposed |-> FALSE]>>,
             Root, kids)

tA == <<"a">>
tB == <<"b">>
tWs == <<" ">>
tPad == <<" ", "b", "\n">>
tScript == <<"S">>

Hrefs == {<<>>, <<"a">>, <<" ", "u", " ">>}

Leaves == {Str(tA), Str(tWs), Str(tPad)}

Script == Tag("script", <<Str(tScript)>>)

Anchors ==
    {Anchor(u, <<l>>) : u \in Hrefs, l \in Leaves}
        \cup {Anchor(u, <<>>) : u \in Hrefs}
        \cup {Tag("a", <<Str(tA)>>), Anchor(<<"u">>, <<Script, Str(tB)>>)}

Inline ==
    Leaves \cup Anchors
        \cup {Script, Tag("style", <<Str(tScript)>>), Tag("meta", <<>>), Tag("link", <<>>),
              Tag("br", <<>>)}

Content ==
    {<<>>} \cup {<<x>> : x \in Inline}
        \cup {<<Str(tA), x>> : x \in {Script, Tag("br", <<>>), Anchor(<<"u">>, <<Str(tB)>>)}}

HeadingTrees ==
    {Tag(t, c) : t \in {"h1", "h2"}, c \in Content}
        \cup {Tag(t, <<l>>) : t \in {"h3", "h4", "h5", "h6"}, l \in {Str(tPad), Str(tWs)}}
        \cup {Tag(t, <<Tag(u, <<Str(tA)>>)>>) : t \in {"h1", "h2"}, u \in {"h1", "h2"}}

ItemContent ==
    {<<>>, <<Str(tA)>>, <<Str(tWs)>>, <<Str(tPad)>>, <<Script>>,
     <<Anchor(<<"u">>, <<Str(tB)>>)>>,
     <<Str(tA), Tag("ul", <<Tag("li", <<Str(tB)>>)>>)>>,
     <<Tag("ol", <<Tag("li", <<Str(tB)>>)>>)>>,
     <<Tag("ul", <<>>)>>, <<Tag("ol", <<>>)>>}

ListTrees ==
    {Tag(t, [i \in 1..Len(cs) |-> Tag("li", cs[i])]) :
        t \in {"ul", "ol"}, cs \in SeqsUpTo(ItemContent, MaxItems)}
        \cup {Tag(t, <<Str(tA)>>) : t \in {"ul", "ol"}}
        \cup {Tag(t, <<Tag("div", <<Tag("li", <<Str(tA)>>)>>), Tag("li", <<Str(tB)>>)>>) :
                t \in {"ul", "ol"}}

CellContent ==
    {<<>>, <<Str(tA)>>, <<Str(tWs)>>, <<Script>>, <<Anchor(<<"u">>, <<Str(tB)>>)>>}

RowTrees ==
    {Tag("tr", [i \in 1..Len(cs) |-> Tag("td", cs[i])]) : cs \in SeqsUpTo(CellContent, MaxCells)}
        \cup {Tag("tr", <<Tag("th", <<Str(tA)>>), Tag("td", <<Str(tB)>>)>>)}

TableTrees ==
    {Tag("table", <<>>), Tag("table", <<Str(tA)>>),
     Tag("table", <<Tag("tr", <<Tag("td", <<Tag("table", <<>>)>>)>>)>>),
     Tag("table", <<Tag("tr", <<Tag("td",
         <<Str(tA), Tag("table", <<Tag("tr", <<Tag("td", <<Str(tB)>>)>>)>>)>>)>>)>>)}
        \cup {Tag("table", <<r>>) : r \in RowTrees}
        \cup {Tag("table", <<r, q>>) :
                r \in RowTrees, q \in {Tag("tr", <<>>), Tag("tr", <<Tag("td", <<Str(tA)>>)>>)}}

AnchorTrees ==
    Anchors \cup {Anchor(u, <<Anchor(v, c)>>) : u \in Hrefs, v \in Hrefs, c \in {<<>>, <<Str(tA)>>}}

Blocks ==
    {Tag("h1", <<Str(tA)>>), Tag("h1", <<Str(tWs)>>), Tag("p", <<Str(tA)>>),
     Tag("p", <<Str(tWs)>>), Tag("ul", <<Tag("li", <<Str(tA)>>)>>),
     Tag("ol", <<Tag("li", <<Str(tA)>>)>>),
     Tag("table", <<Tag("tr", <<Tag("td", <<Str(tA)>>)>>)>>),
     Tag("div", <<Str(tA)>>), Tag("div", <<Tag("p", <<Str(tA)>>)>>)}

BlockTrees ==
    {Tag(t, c) : t \in {"p", "div"}, c \in Content}
        \cup {Tag("div", <<b>>) : b \in Blocks}
        \cup {Tag("div", <<Str(tB), b>>) : b \in Blocks}
        \cup {Tag("p", <<Tag("p", <<>>)>>), Tag("p", <<Tag("p", <<Str(tA)>>)>>),
              Tag("p", <<Tag("h1", <<Str(tA)>>)>>)}

TopTrees == HeadingTrees \cup ListTrees \cup TableTrees \cup AnchorTrees \cup BlockTrees

\* an anchor inside a heading, a list or a table, at several depths
NestedAnchorTrees ==
    LET link == Anchor(<<"u">>, <<Str(tB)>>)
    IN {Tag("h3", <<link>>), Tag("h1", <<Tag("p", <<link>>)>>),
        Tag("ul", <<link>>), Tag("ol", <<link, Tag("li", <<Str(tA)>>)>>),
        Tag("ul", <<Tag("li", <<Tag("h2", <<link>>)>>)>>),
        Tag("ol", <<Tag("li", <<Tag("p", <<link>>)>>)>>),
        Tag("table", <<link>>),
        Tag("table", <<Tag("tr", <<link, Tag("td", <<Str(tA)>>)>>)>>),
        Tag("table", <<Tag("tr", <<Tag("th", <<link>>)>>)>>),
        Tag("a", <<Tag("ul", <<Tag("li", <<link>>)>>)>>),
        Anchor(<<"a">>, <<Tag("h1", <<link>>)>>)}

InputDocs ==
    {BeautifulSoup(<<>>)}
        \cup {BeautifulSoup(<<x>>) : x \in TopTrees \cup Inline}
        \cup {BeautifulSoup(<<Str(tA), x, Str(tA)>>) : x \in TopTrees}
        \cup {BeautifulSoup(<<x, l>>) :
                x \in NestedAnchorTrees,
                l \in {Str(tA), Anchor(<<"u">>, <<Str(tB)>>), Anchor(<<"a">>, <<Str(tB)>>)}}

(***************************************************************************)
(* convert                                                                 *)
(***************************************************************************)
\* the loops of convert and of the passes it calls, in the order they run
Phases ==
    <<"unwanted", "h1", "h2", "h3", "h4", "h5", "h6", "ul", "ol", "table", "a",
      "br", "p", "div">>

PhaseIndex(ph) == CHOOSE i \in 1..Len(Phases) : Phases[i] = ph

\* the list the loop of phase ph iterates over
Found(h, ph) ==
    IF ph = "unwanted" THEN find_all(h, Root, UnwantedTags)
    ELSE IF ph = "a" THEN find_all_href(h, Root)
    ELSE find_all(h, Root, {ph})

\* the first loop from the k-th on that has an element to visit (0: none)
RECURSIVE first_phase(_, _)
first_phase(h, k) ==
    IF k > Len(Phases) THEN 0
    ELSE IF Found(h, Phases[k]) # <<>> THEN k
    ELSE first_phase(h, k + 1)

\* control moves to the k-th loop, past the loops that have nothing to visit
Enter(h, k) ==
    LET j == first_phase(h, k)
    IN /\ soup' = h
       /\ pc' = (IF j = 0 THEN "get_text" ELSE Phases[j])
       /\ work' = (IF j = 0 THEN <<>> ELSE Found(h, Phases[j]))

\* the end of one loop iteration that left the tree as h
Continue(h) ==
    IF h = Raised
    THEN pc' = "error" /\ work' = <<>> /\ UNCHANGED soup
    ELSE IF Tail(work) # <<>>
         THEN soup' = h /\ work' = Tail(work) /\ pc' = pc
         ELSE Enter(h, PhaseIndex(pc) + 1)

Cur == Head(work)

Live == work # <<>> /\ ~soup[Cur].decomposed

ConvertEmpty ==
    /\ pc = "convert"
    /\ html[Root].contents = <<>>
    /\ result' = <<>>
    /\ pc' = "done"
    /\ UNCHANGED <<html, soup, work, text, attachments>>
    /\ UNCHANGED main_vars

Parse ==
    /\ pc = "convert"
    /\ html[Root].contents # <<>>
    /\ Enter(html, 1)
    /\ UNCHANGED <<html, text, result, attachments>>
    /\ UNCHANGED main_vars

RemoveUnwanted ==
    /\ pc = "unwanted" /\ Live
    /\ Continue(decompose(soup, Cur))
    /\ UNCHANGED <<html, text, result, attachments>>
    /\ UNCHANGED main_vars

ProcessHeading ==
    /\ pc \in HeadingTags /\ Live
    /\ Continue(process_heading(soup, Cur, heading_map[pc]))
    /\ UNCHANGED <<html, text, result, attachments>>
    /\ UNCHANGED main_vars

ProcessUl ==
    /\ pc = "ul" /\ Live
    /\ Continue(process_ul(soup, Cur))
    /\ UNCHANGED <<html, text, result, attachments>>
    /\ UNCHANGED main_vars

ProcessOl ==
    /\ pc = "ol" /\ Live
    /\ Continue(process_ol(soup, Cur))
    /\ UNCHANGED <<html, text, result, attachments>>
    /\ UNCHANGED main_vars

ProcessTable ==
    /\ pc = "table" /\ Live
    /\ Continue(process_table(soup, Cur))
    /\ UNCHANGED <<html, text, result, attachments>>
    /\ UNCHANGED main_vars

ProcessLink ==
    /\ pc = "a" /\ Live
    /\ Continue(process_link(soup, Cur))
    /\ UNCHANGED <<html, text, result, attachments>>
    /\ UNCHANGED main_vars

ProcessBr ==
    /\ pc = "br" /\ Live
    /\ Continue(process_br(soup, Cur))
    /\ UNCHANGED <<html, text, result, attachments>>
    /\ UNCHANGED main_vars

ProcessP ==
    /\ pc = "p" /\ Live
    /\ Continue(process_p(soup, Cur))
    /\ UNCHANGED <<html, text, result, attachments>>
    /\ UNCHANGED main_vars

ProcessDiv ==
    /\ pc = "div" /\ Live
    /\ Continue(process_div(soup, Cur))
    /\ UNCHANGED <<html, text, result, attachments>>
    /\ UNCHANGED main_vars

\* A loop reaches an element an earlier iteration decomposed.  The library
\* leaves the behaviour of a decomposed element undefined: the iteration
\* either raises or finds the element empty and goes on.
DecomposedRaises ==
    /\ pc \in {"ul", "ol", "table", "a", "p"}
    /\ work # <<>> /\ soup[Cur].decomposed
    /\ pc' = "error" /\ work' = <<>>
    /\ UNCHANGED <<html, soup, text, result, attachments>>
    /\ UNCHANGED main_vars

DecomposedSkipped ==
    /\ pc \in {"ul", "ol", "table", "a", "p"}
    /\ work # <<>> /\ soup[Cur].decomposed
    /\ Continue(soup)
    /\ UNCHANGED <<html, text, result, attachments>>
    /\ UNCHANGED main_vars

ExtractText ==
    /\ pc = "get_text"
    /\ text' = get_text(soup, Root)
    /\ pc' = "finalize"
    /\ UNCHANGED <<html, soup, work, result, attachments>>
    /\ UNCHANGED main_vars

Finalize ==
    /\ pc = "finalize"
    /\ text' = _finalize_formatting(text)
    /\ pc' = "return"
    /\ UNCHANGED <<html, soup, work, result, attachments>>
    /\ UNCHANGED main_vars

Return ==
    /\ pc = "return"
    /\ result' = strip(text)
    /\ pc' = "done"
    /\ UNCHANGED <<html, soup, work, text, attachments>>
    /\ UNCHANGED main_vars

Init ==
    /\ html \in InputDocs
    /\ soup = html
    /\ pc = "convert"
    /\ work = <<>>
    /\ text = <<>>
    /\ result = <<>>
    /\ attachments = <<>>
    /\ MainNotStarted

Next ==
    \/ ConvertEmpty
    \/ Parse
    \/ RemoveUnwanted
    \/ ProcessHeading
    \/ ProcessUl
    \/ ProcessOl
    \/ ProcessTable
    \/ ProcessLink
    \/ ProcessBr
    \/ ProcessP
    \/ ProcessDiv
    \/ DecomposedRaises
    \/ DecomposedSkipped
    \/ ExtractText
    \/ Finalize
    \/ Return

Spec == Init /\ [][Next]_vars

(***************************************************************************)
(* convert on documents that are one string: every text of up to MaxLen    *)
(* characters reaches _finalize_formatting as soup.get_text() returned it  *)
(***************************************************************************)
FinalizeChars == {"a", " ", "\t", "\n"}

InitFinalize ==
    /\ html \in {BeautifulSoup(<<Str(s)>>) : s \in SeqsUpTo(FinalizeChars, MaxLen) \ {<<>>}}
    /\ soup = html
    /\ pc = "get_text"
    /\ work = <<>>
    /\ text = <<>>
    /\ result = <<>>
    /\ attachments = <<>>
    /\ MainNotStarted

NextFinalize == ExtractText \/ Finalize \/ Return

SpecFinalize == InitFinalize /\ [][NextFinalize]_vars

(***************************************************************************)
(* extract_attachments_info                                                *)
(***************************************************************************)
Keywords ==
    {<<"a", "t", "t", "a", "c", "h", "m", "e", "n", "t">>,
     <<"cyr_ve", "cyr_el", "cyr_o", "cyr_zhe", "cyr_ie", "cyr_en", "cyr_i", "cyr_ie">>,
     <<"cyr_ef", "cyr_a", "cyr_short_i", "cyr_el">>,
     <<"d", "o", "w", "n", "l", "o", "a", "d">>,
     <<"cyr_es", "cyr_ka", "cyr_a", "cyr_che", "cyr_a", "cyr_te", "cyr_soft">>}

\* the any(keyword in text ...) test on one link
mentions_attachment(h, link) ==
    LET link_text == lower(strip(get_text(h, link)))
    IN \E keyword \in Keywords : contains(link_text, keyword)

\* attachment_entry with the href trimmed
attachment_entry_trimmed_url(h, link) ==
    [name |-> strip(get_text(h, link)), url |-> strip(h[link].href)]

\* the dict appended for one link
attachment_entry(h, link) ==
    [name |-> strip(get_text(h, link)), url |-> h[link].href]

AttachTexts ==
    {<<"D", "o", "w", "n", "l", "o", "a", "d", " ", "x">>,
     <<" ", "a", "t", "t", "a", "c", "h", "m", "e", "n", "t", "\n">>,
     <<"a", "t", "t", "a", "c", "h">>,
     <<"CYR_EF", "CYR_A", "CYR_SHORT_I", "CYR_EL">>,
     <<"x", "cyr_es", "cyr_ka", "cyr_a", "cyr_che", "cyr_a", "cyr_te", "cyr_soft">>,
     <<"CYR_VE", "cyr_el", "cyr_o", "cyr_zhe", "cyr_ie", "cyr_en", "cyr_i", "cyr_ie">>,
     <<"x">>}

AttachHrefs == {<<"f">>, <<" ", "f", "\n">>}

AttachAnchors ==
    {Anchor(u, <<Str(t)>>) : u \in AttachHrefs, t \in AttachTexts}
        \cup {Tag("a", <<Str(t)>>) : t \in AttachTexts}
        \cup {Anchor(<<"f">>, <<Str(<<"d", "o", "w", "n">>), Tag("b", <<Str(<<"l", "o", "a", "d">>)>>)>>),
              Anchor(<<"f">>, <<Str(<<"d", "o", "w", "n", "l", "o", "a", "d">>),
                                Anchor(<<"g">>, <<Str(<<"x">>)>>)>>),
              Anchor(<<>>, <<>>),
              Tag("p", <<Anchor(<<"g">>, <<Str(<<"D", "O", "W", "N", "L", "O", "A", "D">>)>>)>>),
              Str(<<"d", "o", "w", "n", "l", "o", "a", "d">>)}

AttachDocs == {BeautifulSoup(kids) : kids \in SeqsUpTo(AttachAnchors, MaxLinks)}

AttachEmpty ==
    /\ pc = "extract_attachments_info"
    /\ html[Root].contents = <<>>
    /\ attachments' = <<>>
    /\ pc' = "returned"
    /\ UNCHANGED <<html, soup, work, text, result>>
    /\ UNCHANGED main_vars

AttachParse ==
    /\ pc = "extract_attachments_info"
    /\ html[Root].contents # <<>>
    /\ soup' = html
    /\ attachments' = <<>>
    /\ work' = find_all_href(html, Root)
    /\ pc' = (IF work' = <<>> THEN "returned" ELSE "links")
    /\ UNCHANGED <<html, text, result>>
    /\ UNCHANGED main_vars

AttachLink ==
    /\ pc = "links"
    /\ work # <<>>
    /\ attachments' = (IF mentions_attachment(soup, Cur)
                       THEN Append(attachments, attachment_entry(soup, Cur))
                       ELSE attachments)
    /\ work' = Tail(work)
    /\ pc' = (IF work' = <<>> THEN "returned" ELSE "links")
    /\ UNCHANGED <<html, soup, text, result>>
    /\ UNCHANGED main_vars

InitAttach ==
    /\ html \in AttachDocs
    /\ soup = html
    /\ pc = "extract_attachments_info"
    /\ work = <<>>
    /\ text = <<>>
    /\ result = <<>>
    /\ attachments = <<>>
    /\ MainNotStarted

NextAttach == AttachEmpty \/ AttachParse \/ AttachLink

SpecAttach == InitAttach /\ [][NextAttach]_vars

(***************************************************************************)
(* main (mail_client.py): authentication, then the menu loop.  One action  *)
(* is one pass of the loop: the lines it reads from input() and the        *)
(* request it issues.  A request ends with the expected status, with       *)
(* another status, or with an exception the called function catches.       *)
(***************************************************************************)
\* what acquire_token returns: a dict with or without the key "access_token"
TokenResults ==
    {[has_access_token |-> TRUE, access_token |-> <<"t">>],
     [has_access_token |-> FALSE, access_token |-> <<>>]}

Outcomes == {"success", "refused", "raised"}

\* the lines the user types
ChoiceLines ==
    {<<c>> : c \in {"1", "2", "3", "4", "5", "6", "7", "8", "9", "y"}}
        \cup {<<>>, <<" ", "4">>, <<"4", "4">>, <<"8", " ">>}

IdLines == {<<>>, <<" ">>, <<"m">>, <<" ", "m", " ">>}

ConfirmLines ==
    {<<>>, <<"y">>, <<"Y">>, <<" ", "Y", " ">>, <<"n">>, <<"y", "e", "s">>, <<"y", " ", "y">>}

RecipientLines == {<<>>, <<",">>, <<"a">>, <<" ", "a", ",", ",", "b">>}

LimitLines == {<<>>, <<"5">>, <<"x">>, <<"1", "2">>}

QueryLines == {<<>>, <<" ">>, <<"a">>}

\* int(s) for a string of digits; every other string raises ValueError
IsDigits(s) == s # <<>> /\ \A i \in 1..Len(s) : \E d \in 1..Len(Digits) : Digits[d] = s[i]

digit(c) == (CHOOSE d \in 1..Len(Digits) : Digits[d] = c) - 1

RECURSIVE int(_)
int(s) == IF s = <<>> THEN 0 ELSE 10 * int(SubSeq(s, 1, Len(s) - 1)) + digit(s[Len(s)])

\* limit = int(limit) if limit else 10, and 10 on ValueError
parse_limit(limit) == IF limit # <<>> /\ IsDigits(limit) THEN int(limit) ELSE 10

\* [email.strip() for email in line.split(",") if email.strip()]
emails_of(line) ==
    LET parts == split(line, ",")
        stripped == [i \in 1..Len(parts) |-> strip(parts[i])]
    IN SelectSeq(stripped, LAMBDA e : e # <<>>)

\* the confirmation answer with one stray character allowed after the "y"
read_confirm_prefix(line) ==
    LET answer == lower(strip(line))
    IN IF answer = <<>> THEN <<>> ELSE <<Head(answer)>>

\* input("... (y/n): ").strip().lower()
read_confirm(line) == lower(strip(line))

\* the request a function issues with the token, inside its try block
Request(method, endpoint, arg) ==
    [method |-> method, endpoint |-> endpoint, arg |-> arg, token |-> access_token]

Call(request) ==
    /\ issued' = <<request>>
    /\ outcome' \in Outcomes

NoCall ==
    /\ issued' = <<>>
    /\ outcome' = "none"

send_mail(to_recipients) == Call(Request("POST", "sendMail", to_recipients))

get_emails(top) == Call(Request("GET", "mailFolders/inbox/messages", <<top>>))

get_email_content(id) == Call(Request("GET", "messages/{id}", id))

delete_email(id) == Call(Request("DELETE", "messages/{id}", id))

move_email_to_trash(id) == Call(Request("POST", "messages/{id}/move", id))

search_emails(query) == Call(Request("GET", "messages", query))

get_folders == Call(Request("GET", "mailFolders", <<>>))

AuthenticationFailed ==
    /\ main_pc = "main"
    /\ \E r \in TokenResults : ~r.has_access_token
    /\ main_pc' = "returned"
    /\ UNCHANGED <<access_token, choice, message_id, confirm, inputs, issued, outcome>>
    /\ UNCHANGED converter_vars

\* acquire_token raises when the device flow cannot be created
AuthenticationRaises ==
    /\ main_pc = "main"
    /\ main_pc' = "raised"
    /\ UNCHANGED <<access_token, choice, message_id, confirm, inputs, issued, outcome>>
    /\ UNCHANGED converter_vars

Authenticated ==
    /\ main_pc = "main"
    /\ \E r \in TokenResults :
          /\ r.has_access_token
          /\ access_token' = r.access_token
    /\ main_pc' = "menu"
    /\ UNCHANGED <<choice, message_id, confirm, inputs, issued, outcome>>
    /\ UNCHANGED converter_vars

SendEmail ==
    /\ main_pc = "menu"
    /\ \E line \in ChoiceLines, to \in RecipientLines, cc \in RecipientLines :
          /\ strip(line) = <<"1">>
          /\ choice' = strip(line)
          /\ inputs' = <<line, <<"s">>, <<"b">>, to, cc>>
          /\ IF emails_of(to) = <<>> THEN NoCall ELSE send_mail(emails_of(to))
    /\ UNCHANGED <<main_pc, access_token, message_id, confirm>>
    /\ UNCHANGED converter_vars

ReadInbox ==
    /\ main_pc = "menu"
    /\ \E line \in ChoiceLines, limit \in LimitLines :
          /\ strip(line) = <<"2">>
          /\ choice' = strip(line)
          /\ inputs' = <<line, limit>>
          /\ get_emails(parse_limit(strip(limit)))
    /\ UNCHANGED <<main_pc, access_token, message_id, confirm>>
    /\ UNCHANGED converter_vars

ReadEmail ==
    /\ main_pc = "menu"
    /\ \E line \in ChoiceLines, id \in IdLines :
          /\ strip(line) = <<"3">>
          /\ choice' = strip(line)
          /\ message_id' = strip(id)
          /\ inputs' = <<line, id>>
          /\ IF strip(id) # <<>> THEN get_email_content(strip(id)) ELSE NoCall
    /\ UNCHANGED <<main_pc, access_token, confirm>>
    /\ UNCHANGED converter_vars

DeleteEmail ==
    /\ main_pc = "menu"
    /\ \E line \in ChoiceLines, id \in IdLines, answer \in ConfirmLines :
          /\ strip(line) = <<"4">>
          /\ choice' = strip(line)
          /\ message_id' = strip(id)
          /\ IF strip(id) # <<>>
             THEN /\ confirm' = read_confirm(answer)
                  /\ inputs' = <<line, id, answer>>
                  /\ IF read_confirm(answer) = <<"y">>
                     THEN delete_email(strip(id))
                     ELSE NoCall
             ELSE /\ inputs' = <<line, id>>
                  /\ NoCall
                  /\ UNCHANGED confirm
    /\ UNCHANGED <<main_pc, access_token>>
    /\ UNCHANGED converter_vars

MoveToTrash ==
    /\ main_pc = "menu"
    /\ \E line \in ChoiceLines, id \in IdLines :
          /\ strip(line) = <<"5">>
          /\ choice' = strip(line)
          /\ message_id' = strip(id)
          /\ inputs' = <<line, id>>
          /\ IF strip(id) # <<>> THEN move_email_to_trash(strip(id)) ELSE NoCall
    /\ UNCHANGED <<main_pc, access_token, confirm>>
    /\ UNCHANGED converter_vars

SearchEmails ==
    /\ main_pc = "menu"
    /\ \E line \in ChoiceLines, query \in QueryLines :
          /\ strip(line) = <<"6">>
          /\ choice' = strip(line)
          /\ inputs' = <<line, query>>
          /\ IF strip(query) # <<>> THEN search_emails(strip(query)) ELSE NoCall
    /\ UNCHANGED <<main_pc, access_token, message_id, confirm>>
    /\ UNCHANGED converter_vars

ListFolders ==
    /\ main_pc = "menu"
    /\ \E line \in ChoiceLines :
          /\ strip(line) = <<"7">>
          /\ choice' = strip(line)
          /\ inputs' = <<line>>
          /\ get_folders
    /\ UNCHANGED <<main_pc, access_token, message_id, confirm>>
    /\ UNCHANGED converter_vars

Exit ==
    /\ main_pc = "menu"
    /\ \E line \in ChoiceLines :
          /\ strip(line) = <<"8">>
          /\ choice' = strip(line)
          /\ inputs' = <<line>>
          /\ NoCall
    /\ main_pc' = "exited"
    /\ UNCHANGED <<access_token, message_id, confirm>>
    /\ UNCHANGED converter_vars

InvalidOption ==
    /\ main_pc = "menu"
    /\ \E line \in ChoiceLines :
          /\ strip(line) \notin {<<c>> : c \in {"1", "2", "3", "4", "5", "6", "7", "8"}}
          /\ choice' = strip(line)
          /\ inputs' = <<line>>
          /\ NoCall
    /\ UNCHANGED <<main_pc, access_token, message_id, confirm>>
    /\ UNCHANGED converter_vars

InitMain ==
    /\ html = BeautifulSoup(<<>>)
    /\ soup = html
    /\ pc = "convert"
    /\ work = <<>>
    /\ text = <<>>
    /\ result = <<>>
    /\ attachments = <<>>
    /\ MainNotStarted

NextMain ==
    \/ AuthenticationFailed
    \/ AuthenticationRaises
    \/ Authenticated
    \/ SendEmail
    \/ ReadInbox
    \/ ReadEmail
    \/ DeleteEmail
    \/ MoveToTrash
    \/ SearchEmails
    \/ ListFolders
    \/ Exit
    \/ InvalidOption

SpecMain == InitMain /\ [][NextMain]_vars

(***************************************************************************)
(* Claims                                                                  *)
(***************************************************************************)
Rep(c, n) == [i \in 1..n |-> c]

Chars(s) == {s[i] : i \in 1..Len(s)}

\* the step replaced n by a new string node holding s, in n's place
ReplacedBy(n, s) ==
    LET par == soup[n].parent
    IN /\ par # NoParent
       /\ Len(soup') = Len(soup) + 1
       /\ soup'[Len(soup')].name = NavigableString
       /\ soup'[Len(soup')].text = s
       /\ soup'[par].contents =
            [soup[par].contents EXCEPT ![IndexIn(soup[par].contents, n)] = Len(soup')]
       /\ soup'[n].parent = NoParent

\* the step removed n and put nothing in its place
Removed(n) ==
    /\ Len(soup') = Len(soup)
    /\ soup'[n].parent = NoParent
    /\ \A m \in 1..Len(soup') : \A i \in 1..Len(soup'[m].contents) : soup'[m].contents[i] # n
    /\ soup[n].parent # NoParent =>
         soup'[soup[n].parent].contents = Without(soup[soup[n].parent].contents, n)

HeadingLevel(tag) == PhaseIndex(tag) - 1

\* the only child of the document, when it has exactly one
OnlyChild == html[Root].contents[1]

SingleHeadingDoc ==
    /\ Len(html[Root].contents) = 1
    /\ html[OnlyChild].name \in HeadingTags
    /\ Len(html[OnlyChild].contents) = 1
    /\ ~IsTag(html, html[OnlyChild].contents[1])
    /\ strip(get_text(html, OnlyChild)) # <<>>

\* C1 as stated: a heading of level N with non-empty trimmed text is replaced
\* by "\n\n", the marker of (7-N) "=", a space, the upper-cased text, a line
\* break and an underline of exactly (7-N) "=" (the width of the marker); a
\* document that is one such heading converts to those two lines.
C1_UnderlineAsWideAsMarker ==
    [][/\ (pc \in HeadingTags /\ Live /\ strip(get_text(soup, Cur)) # <<>>) =>
            ReplacedBy(Cur,
                <<"\n", "\n">> \o Rep("=", 7 - HeadingLevel(pc)) \o <<" ">>
                    \o upper(strip(get_text(soup, Cur))) \o <<"\n">>
                    \o Rep("=", 7 - HeadingLevel(pc)) \o <<"\n">>)
       /\ (pc = "return" /\ SingleHeadingDoc) =>
            result' = Rep("=", 7 - HeadingLevel(html[OnlyChild].name)) \o <<" ">>
                        \o upper(strip(get_text(html, OnlyChild))) \o <<"\n">>
                        \o Rep("=", 7 - HeadingLevel(html[OnlyChild].name))]_vars

\* C1 amended: the same, with an underline of (8-N) "=" characters: the
\* marker's (7-N) "=" and one more for the space that follows the marker.
\* For <h1>Title</h1> the output is "====== TITLE" and a line of seven "=".
C1_HeadingBlock ==
    [][/\ (pc \in HeadingTags /\ Live /\ strip(get_text(soup, Cur)) # <<>>) =>
            ReplacedBy(Cur,
                <<"\n", "\n">> \o Rep("=", 7 - HeadingLevel(pc)) \o <<" ">>
                    \o upper(strip(get_text(soup, Cur))) \o <<"\n">>
                    \o Rep("=", 8 - HeadingLevel(pc)) \o <<"\n">>)
       /\ (pc = "return" /\ SingleHeadingDoc) =>
            result' = Rep("=", 7 - HeadingLevel(html[OnlyChild].name)) \o <<" ">>
                        \o upper(strip(get_text(html, OnlyChild))) \o <<"\n">>
                        \o Rep("=", 8 - HeadingLevel(html[OnlyChild].name))]_vars

\* a document that is one h1 holding lower-case text has been converted
C1_Witness ==
    /\ pc = "done"
    /\ SingleHeadingDoc
    /\ html[OnlyChild].name = "h1"
    /\ get_text(html, OnlyChild) = tA
    /\ result = <<"=", "=", "=", "=", "=", "=", " ", "A", "\n",
                  "=", "=", "=", "=", "=", "=", "=">>

Lines(s) == Chars(split(s, "\n"))

\* an element of the input that holds strings only, whose trimmed text is
\* non-empty and has no whitespace inside
Plain(n) ==
    /\ \A i \in 1..Len(html[n].contents) : ~IsTag(html, html[n].contents[i])
    /\ strip(get_text(html, n)) # <<>>
    /\ Chars(strip(get_text(html, n))) \cap Whitespace = {}

TopLevel(names) == {n \in 1..Len(html) : html[n].name \in names /\ html[n].parent = Root}

ChildrenOf(n) == {html[n].contents[i] : i \in 1..Len(html[n].contents)}

PlainRow(tr) ==
    /\ html[tr].name = "tr"
    /\ html[tr].contents # <<>>
    /\ \A c \in ChildrenOf(tr) : html[c].name \in {"td", "th"} /\ Plain(c)

\* C2: in the string convert returns, every rendered list item and table row
\* keeps its two-space indentation: "  • text" for an item of an unordered
\* list, "  k. text" for the k-th item of an ordered list, "  cell | cell"
\* for a table row.
C2_IndentationKept ==
    pc = "done" =>
        /\ \A ul \in TopLevel({"ul"}) : \A li \in ChildrenOf(ul) :
              (html[li].name = "li" /\ Plain(li)) =>
                  (<<" ", " ", "BULLET", " ">> \o strip(get_text(html, li))) \in Lines(result)
        /\ \A ol \in TopLevel({"ol"}) : \A li \in ChildrenOf(ol) :
              (html[li].name = "li" /\ Plain(li)) =>
                  (<<" ", " ">> \o str(IndexIn(find_all(html, ol, {"li"}), li)) \o <<".", " ">>
                      \o strip(get_text(html, li))) \in Lines(result)
        /\ \A table \in TopLevel({"table"}) : \A tr \in ChildrenOf(table) :
              PlainRow(tr) =>
                  (<<" ", " ">> \o join(<<" ", "|", " ">>,
                      [i \in 1..Len(html[tr].contents) |->
                          strip(get_text(html, html[tr].contents[i]))])) \in Lines(result)

\* the element the loop is about to visit has no content of its own: a
\* heading or paragraph with empty trimmed text, a list whose items are all
\* empty, a table whose cells are all empty
OwnContentEmpty(n) ==
    IF pc \in {"ul", "ol"}
    THEN \A li \in Chars(find_all(soup, n, {"li"})) : strip(get_text(soup, li)) = <<>>
    ELSE IF pc = "table"
    THEN \A c \in Chars(find_all(soup, n, {"td", "th"})) : strip(get_text(soup, c)) = <<>>
    ELSE strip(get_text(soup, n)) = <<>>

\* C3: a heading, paragraph, list or table whose own content is empty or
\* whitespace-only is dropped and emits no block: once its pass has visited
\* it, it contributes no character to the text of the tree, which is the
\* text of the tree with that element deleted.
C3_EmptyElementDropped ==
    [][(pc \in HeadingTags \cup {"ul", "ol", "table", "p"} /\ Live /\ attached(soup, Cur)
            /\ OwnContentEmpty(Cur))
        => get_text(soup', Root) = get_text(extract(soup, Cur), Root)]_vars

\* t [u], u, t, u or nothing: the replacement the link policy names
LinkPolicy(t, u) ==
    CASE t # <<>> /\ u # <<>> /\ t # u -> t \o <<" ", "[">> \o u \o <<"]">>
      [] t # <<>> /\ u # <<>> /\ t = u -> u
      [] t # <<>> /\ u = <<>> -> t
      [] t = <<>> /\ u # <<>> -> u
      [] t = <<>> /\ u = <<>> -> <<>>

\* C4: the link pass replaces an anchor that has an href, with t its trimmed
\* text and u its trimmed href, by "t [u]" when both are non-empty and differ,
\* by u when both are non-empty and equal, by t when only t is non-empty, by u
\* when only u is non-empty, and removes it when both are empty; an anchor
\* without href is never visited and stays an element of the tree.
C4_LinkPolicy ==
    [][(pc = "a" /\ Live) =>
        LET t == strip(get_text(soup, Cur))
            u == strip(soup[Cur].href)
        IN /\ soup[Cur].name = "a" /\ soup[Cur].has_href
           /\ IF t = <<>> /\ u = <<>> THEN Removed(Cur) ELSE ReplacedBy(Cur, LinkPolicy(t, u))
           /\ \A n \in 1..Len(soup) :
                (soup[n].name = "a" /\ ~soup[n].has_href /\ attached(soup, n)
                    /\ n \notin Chars(descendants(soup, Cur)))
                => (attached(soup', n) /\ soup'[n].name = "a")]_vars

\* an anchor with text "b" and href "u", both with whitespace around them,
\* has been rewritten and the document converted
C4_Witness ==
    /\ pc = "done"
    /\ \E a \in TopLevel({"a"}) :
          /\ html[a].has_href
          /\ strip(html[a].href) = <<"u">>
          /\ strip(get_text(html, a)) = <<"b">>
    /\ result = <<"b", " ", "[", "u", "]">>

\* C5: the ordered-list pass numbers the li elements it finds 1, 2, 3, ... in
\* document order, empty ones included, and the block that replaces the list
\* is one line "  k. text" per li with non-empty trimmed text, in increasing
\* k (so numbers may have gaps); a list with no non-empty li is removed.
C5_OrderedNumbering ==
    [][(pc = "ol" /\ Live) =>
        LET lis == find_all(soup, Cur, {"li"})
            t(k) == strip(get_text(soup, lis[k]))
            kept == SelectSeq([k \in 1..Len(lis) |-> k], LAMBDA k : t(k) # <<>>)
        IN IF kept = <<>> THEN Removed(Cur)
           ELSE /\ \A j \in 1..(Len(kept) - 1) : kept[j] < kept[j + 1]
                /\ ReplacedBy(Cur,
                      <<"\n">>
                      \o join(<<"\n">>,
                            [j \in 1..Len(kept) |->
                                <<" ", " ">> \o str(kept[j]) \o <<".", " ">> \o t(kept[j])])
                      \o <<"\n">>)]_vars

\* an ordered list whose first li is empty and whose second is not has been
\* converted: the only line carries the number 2
C5_Witness ==
    /\ pc = "done"
    /\ \E ol \in TopLevel({"ol"}) :
          /\ Len(html[ol].contents) = 2
          /\ strip(get_text(html, html[ol].contents[1])) = <<>>
          /\ strip(get_text(html, html[ol].contents[2])) = <<"a">>
    /\ result = <<"2", ".", " ", "a">>

\* C6: the block that replaces an unordered list is exactly one bullet line
\* per direct li child with non-empty trimmed text, in document order; the li
\* elements of a list nested in an item add no line to the outer block.
C6_DirectItemsOnly ==
    [][(pc = "ul" /\ Live) =>
        LET direct == SelectSeq(soup[Cur].contents, LAMBDA c : soup[c].name = "li")
            kept == SelectSeq(direct, LAMBDA li : strip(get_text(soup, li)) # <<>>)
        IN IF kept = <<>> THEN Removed(Cur)
           ELSE ReplacedBy(Cur,
                    <<"\n">>
                    \o join(<<"\n">>,
                          [j \in 1..Len(kept) |->
                              <<" ", " ", "BULLET", " ">> \o strip(get_text(soup, kept[j]))])
                    \o <<"\n">>)]_vars

\* the anchors with href of the input whose text mentions an attachment, in
\* document order
ExpectedLinks ==
    SelectSeq(descendants(html, Root),
        LAMBDA n : /\ html[n].name = "a" /\ html[n].has_href
                   /\ \E keyword \in Keywords :
                        contains(lower(strip(get_text(html, n))), keyword))

\* C7: extract_attachments_info returns, in document order and without
\* deduplication, one entry per anchor that has an href and whose trimmed,
\* lower-cased text contains a keyword; name is the trimmed text in its
\* original case, url the raw href; no such anchor, or empty input, gives [].
C7_AttachmentEntries ==
    pc = "returned" =>
        /\ Len(attachments) = Len(ExpectedLinks)
        /\ \A i \in 1..Len(attachments) :
              /\ attachments[i].name = strip(get_text(html, ExpectedLinks[i]))
              /\ attachments[i].url = html[ExpectedLinks[i]].href

\* two equal matching anchors, with an href that has whitespace around it and
\* upper-case text, gave two entries
C7_Witness ==
    /\ pc = "returned"
    /\ Len(attachments) = 2
    /\ attachments[1] = attachments[2]
    /\ attachments[1].url = <<" ", "f", "\n">>
    /\ attachments[1].name = <<"CYR_EF", "CYR_A", "CYR_SHORT_I", "CYR_EL">>

\* the elements the claim names as non-content
NonContentTags == {"script", "style", "meta", "link"}

RECURSIVE InUnwanted(_)
InUnwanted(n) ==
    IF n = Root THEN FALSE
    ELSE html[n].name \in NonContentTags \/ InUnwanted(html[n].parent)

\* the characters the input holds only inside script, style, meta or link
UnwantedOnlyChars ==
    {c \in UNION {Chars(html[n].text) : n \in 1..Len(html)} :
        \A n \in 1..Len(html) : c \in Chars(html[n].text) => InUnwanted(n)}

\* C8: script, style, meta and link elements are removed before every rewrite
\* pass: once the first pass starts none is left in the tree, and no text
\* that the input holds only inside such an element is in the text extracted,
\* in the finalized text or in the output, wherever the element was nested.
C8_UnwantedTextGone ==
    /\ pc \notin {"convert", "unwanted", "error"} =>
          \A n \in 1..Len(soup) : attached(soup, n) =>
              /\ soup[n].name \notin NonContentTags
              /\ Chars(soup[n].text) \cap UnwantedOnlyChars = {}
    /\ pc \in {"finalize", "return", "done"} => Chars(text) \cap UnwantedOnlyChars = {}
    /\ pc = "done" => Chars(result) \cap UnwantedOnlyChars = {}

\* a script nested in an element whose text a later pass collects, beside
\* text that is kept
C8_Witness ==
    /\ pc = "done"
    /\ result # <<>>
    /\ UnwantedOnlyChars # {}
    /\ \E n \in 1..Len(html) :
          /\ html[n].name = "script"
          /\ html[html[n].parent].name \in {"h1", "li", "td", "a", "p", "div"}

\* C9: a div that had a heading, paragraph, list or table as a direct child in
\* the input is left untouched by the block-container pass; only a div with
\* none of these as a direct child is replaced by "\n" + trimmed text + "\n".
C9_ContainerUntouched ==
    [][(pc = "div" /\ Live /\ strip(get_text(soup, Cur)) # <<>>) =>
        IF \E c \in ChildrenOf(Cur) : html[c].name \in StructuralTags
        THEN soup' = soup
        ELSE ReplacedBy(Cur, <<"\n">> \o strip(get_text(soup, Cur)) \o <<"\n">>)]_vars

\* no three newlines in a row, no two spaces in a row, no whitespace next to
\* a line break, at the start or at the end
Clean(s) ==
    /\ \A i \in 1..(Len(s) - 2) : ~(s[i] = "\n" /\ s[i + 1] = "\n" /\ s[i + 2] = "\n")
    /\ \A i \in 1..(Len(s) - 1) : ~(s[i] = " " /\ s[i + 1] = " ")
    /\ \A i \in 1..Len(s) :
          (isspace(s[i]) /\ s[i] # "\n") =>
              /\ 1 < i /\ i < Len(s)
              /\ s[i - 1] # "\n" /\ s[i + 1] # "\n"
    /\ s # <<>> => (~isspace(s[1]) /\ ~isspace(s[Len(s)]))

\* C10: the result of _finalize_formatting, and so the string convert
\* returns, has no run of three or more newlines, no two consecutive spaces,
\* no line that begins or ends with whitespace and no leading or trailing
\* whitespace, also when the newlines of the input are interleaved with
\* spaces or tabs.
C10_FinalizedClean ==
    /\ pc \in {"return", "done"} => Clean(text)
    /\ pc = "done" => Clean(result)

\* a text with newlines interleaved with a space and a tab went through
C10_Witness ==
    /\ pc = "done"
    /\ get_text(soup, Root) = <<"a", "\n", " ", "\n", "\t", "\n">>
    /\ result = <<"a">>

\* no two spaces in a row, no three newlines in a row, and every line is its
\* own trimming
LinesNormalised(s) ==
    /\ \A i \in 1..(Len(s) - 1) : ~(s[i] = " " /\ s[i + 1] = " ")
    /\ \A i \in 1..(Len(s) - 2) : ~(s[i] = "\n" /\ s[i + 1] = "\n" /\ s[i + 2] = "\n")
    /\ \A l \in Lines(s) : strip(l) = l

\* C11 as stated: every text with no two consecutive spaces, no three
\* consecutive newlines and no line with leading or trailing whitespace is
\* returned unchanged by _finalize_formatting.
C11_NormalisedIsFixedPoint ==
    (pc = "return" /\ LinesNormalised(get_text(soup, Root))) =>
        text = get_text(soup, Root)

\* C11: every text with no two consecutive spaces, no three consecutive
\* newlines, no line with leading or trailing whitespace, and which itself
\* neither begins nor ends with a newline, is returned unchanged by
\* _finalize_formatting.
C11_TrimmedNormalisedIsFixedPoint ==
    (pc = "return" /\ LinesNormalised(get_text(soup, Root))
        /\ strip(get_text(soup, Root)) = get_text(soup, Root)) =>
        text = get_text(soup, Root)

\* a text with a blank line, a tab and single spaces inside came back as it was
C11_Witness ==
    /\ pc = "return"
    /\ get_text(soup, Root) = <<"a", "\n", "\n", "a", "\t", "a">>
    /\ LinesNormalised(get_text(soup, Root))
    /\ text = get_text(soup, Root)

\* the elements whose pass runs before the link pass and replaces the element
\* by its collected text
AbsorbingTags == HeadingTags \cup {"ul", "ol", "table"}

\* n has an ancestor, in the input, with one of the names
RECURSIVE Inside(_, _)
Inside(n, names) ==
    IF n = Root THEN FALSE
    ELSE html[html[n].parent].name \in names \/ Inside(html[n].parent, names)

\* the text of the input under n, from child i on, without what script,
\* style, meta and link elements hold
RECURSIVE VisibleText(_, _)
VisibleText(n, i) ==
    IF i > Len(html[n].contents) THEN <<>>
    ELSE LET c == html[n].contents[i]
         IN (IF ~IsTag(html, c) THEN html[c].text
             ELSE IF html[c].name \in NonContentTags THEN <<>>
             ELSE VisibleText(c, 1)) \o VisibleText(n, i + 1)

AnchorText(n) == strip(VisibleText(n, 1))

AnchorUrl(n) == strip(html[n].href)

HrefAnchors == {n \in 1..Len(html) : html[n].name = "a" /\ html[n].has_href /\ ~InUnwanted(n)}

\* the anchors of the claim: inside a heading, a list or a table, with
\* non-empty text and a different non-empty href
NestedAnchors ==
    {n \in HrefAnchors :
        /\ Inside(n, AbsorbingTags)
        /\ AnchorText(n) # <<>> /\ AnchorUrl(n) # <<>> /\ AnchorText(n) # AnchorUrl(n)}

\* the URL u can reach the output in no other way: it is not in the visible
\* text and no anchor outside headings, lists and tables carries it
OnlyInNestedHref(u) ==
    /\ ~contains(VisibleText(Root, 1), u)
    /\ \A m \in HrefAnchors : ~Inside(m, AbsorbingTags) => ~contains(html[m].href, u)

\* the link pass never visits an anchor nested in a heading, a list or a
\* table, and the output shows neither "t [u]" nor u for such an anchor
NestedAnchorNotRewritten ==
    /\ pc = "a" => \A i \in 1..Len(work) : ~Inside(work[i], AbsorbingTags)
    /\ pc = "done" =>
          \A n \in NestedAnchors :
              /\ (\A m \in HrefAnchors : ~Inside(m, AbsorbingTags) => AnchorUrl(m) # AnchorUrl(n))
                    => ~contains(result, <<"[">> \o AnchorUrl(n) \o <<"]">>)
              /\ OnlyInNestedHref(AnchorUrl(n)) => ~contains(result, AnchorUrl(n))

\* C12: the link pass never rewrites an anchor nested inside a heading, a
\* list or a table, so only anchors outside them get their URL rendered; when
\* such an anchor has non-empty text t and a different non-empty href u, the
\* output of convert contains t, never "t [u]", and u only if u also occurs
\* in visible text.
C12_NestedAnchorTextKept ==
    /\ NestedAnchorNotRewritten
    /\ pc = "done" => \A n \in NestedAnchors : contains(result, AnchorText(n))

\* the latest pass of the loop issued a permanent delete request
DeleteIssued == \E k \in 1..Len(issued) : issued[k].method = "DELETE"

\* what the user typed in the latest pass of the loop
ChoseOption(c) == inputs # <<>> /\ strip(inputs[1]) = <<c>>

EnteredId == Len(inputs) >= 2 /\ strip(inputs[2]) # <<>>

AnsweredYes == Len(inputs) >= 3 /\ lower(strip(inputs[3])) = <<"y">>

\* C13: in the menu loop a permanent delete request is issued exactly in a
\* pass where option 4 was chosen, a non-empty message id was entered and the
\* confirmation answer, trimmed and lower-cased, is "y"; any other answer or
\* an empty id issues no request and returns to the menu.  The loop is
\* entered only from authentication that returned an access token, which is
\* the token every request carries, and it is left only when option 8 is
\* chosen, whatever the outcome of a request.
C13_DeleteOnlyWhenConfirmed ==
    [][/\ main_pc = "menu" =>
            /\ DeleteIssued' <=> (ChoseOption("4")' /\ EnteredId' /\ AnsweredYes')
            /\ (ChoseOption("4")' /\ ~(EnteredId' /\ AnsweredYes')) =>
                  (issued' = <<>> /\ main_pc' = "menu")
            /\ main_pc' # "menu" => (ChoseOption("8")' /\ main_pc' = "exited")
            /\ ChoseOption("8")' <=> main_pc' # "menu"
            /\ \A k \in 1..Len(issued') : issued'[k].token = <<"t">>
       /\ (main_pc # "menu" /\ main_pc' = "menu") =>
            /\ main_pc = "main"
            /\ access_token' \in {r.access_token : r \in {q \in TokenResults : q.has_access_token}}
       /\ main_pc # "menu" => issued' = <<>>]_vars

\* option 4 typed with a space before it, an id with spaces around it and the
\* answer " Y ": the delete request for "m" went out, was refused, and the
\* loop is back at the menu
C13_Witness ==
    /\ main_pc = "menu"
    /\ inputs = <<<<" ", "4">>, <<" ", "m", " ">>, <<" ", "Y", " ">>>>
    /\ issued = <<[method |-> "DELETE", endpoint |-> "messages/{id}", arg |-> <<"m">>,
                   token |-> <<"t">>]>>
    /\ outcome = "refused"

====
